---- MODULE Spec2Model ----
(***************************************************************************)
(* Digital Death Switch: the trigger state machine of DeathSwitchAI        *)
(* (death_switch_system.py), its SQLite stores (activity_log, otp_log),    *)
(* the Flask handlers of app_backend.py and the daemon loop of             *)
(* background_service.py.                                                  *)
(*                                                                         *)
(* Time is counted in whole hours of UTC.  The process's local clock       *)
(* (datetime.now()) is now + tz.                                           *)
(***************************************************************************)
EXTENDS Integers, Sequences, FiniteSets, TLC

\* ---------------------------------------------------------------- bounds
Window == 2              \* hours explored after the process is started
MaxEvents == 2           \* rows of activity_log the owner's check-ins may fill
MaxOtps == 2             \* life-verification challenges issued in one run
MaxRestarts == 1         \* restarts of the process
MaxTZ == 1               \* the local clock is UTC - MaxTZ, UTC or UTC + MaxTZ
inactivity_days == 1     \* config['inactivity_days']
verification_hours == 2  \* config['verification_hours']
MaxPairs == 2            \* (recipient, document) pairs of a release to several
MaxFailures == 2         \* monitoring cycles that end in an exception

\* ------------------------------------------------------ program constants
HoursPerDay == 24        \* timedelta.days counts whole days of 24 hours
TickHours == 1           \* time.sleep(3600) in the daemon loop
RetryHours == 0          \* time.sleep(300) after a failed cycle: within the hour
LifeOtpExpiryHours == 1  \* store_otp(..., expiry_minutes=60)
DocOtpExpiryHours == 24  \* store_otp(..., expiry_minutes=1440)
CharT == 84              \* 'T', the separator datetime.isoformat() writes
CharSpace == 32          \* ' ', the separator SQLite's datetime('now') writes

TZOffsets == {0 - MaxTZ, 0, MaxTZ}
Codes == {"000001", "000002"}          \* values of generate_otp()
Secrets == {"k1", "k2"}                \* kill-switch secrets an owner may type
Inputs == Codes \cup Secrets \cup {""}     \* what a caller may submit
Salt == "salt"                         \* secrets.token_hex(16)
NoTime == 0 - 1000

\* The process is started when the seeded check-in of hour 0 is almost
\* inactivity_days old, and is followed for Window hours.
StartTime == inactivity_days * HoursPerDay - MaxTZ
MaxTime == StartTime + Window

\* config['recipients'] and config['documents'] (names) an installation may hold
ConfiguredRecipients == {<<"alice">>, <<"alice", "bob">>}
ConfiguredDocuments == {<<"will">>, <<"will", "deed">>}

\* The language tags a recipient's preferred_language may hold: two keys of the
\* message dictionaries, one of them with a capital as well, and a tag that is
\* no key
Tags == {"english", "hindi", "Hindi", "klingon"}

\* The keys of the dictionaries messages and sms_messages
Templates == {"english", "hindi", "telugu", "tamil", "kannada", "malayalam",
              "spanish", "french"}

\* str.lower() on the tags
Lower(language) == IF language = "Hindi" THEN "hindi" ELSE language

\* get_message_in_language: messages.get(language.lower(), messages['english'])
email_language(language) ==
    IF Lower(language) \in Templates THEN Lower(language) ELSE "english"

\* sms_messages.get(recipient.preferred_language, sms_messages['english'])
sms_language(language) ==
    IF language \in Templates THEN language ELSE "english"

\* Recipient.preferred_language's default, for every recipient
DefaultLanguages == [r \in {"alice", "bob"} |-> "english"]

\* load_config's required_keys
required_keys == {"email", "email_password", "recipients", "documents"}

\* The config.json create_sample_config writes, and that of an installation in
\* use: the file exists and holds every required key
sample_config == [exists |-> TRUE, keys |-> required_keys]

\* What config.json may be when a process starts: absent, or present with any
\* of the required keys
ConfigFiles ==
    {[exists |-> FALSE, keys |-> {}]}
    \cup {[exists |-> TRUE, keys |-> K] : K \in SUBSET required_keys}

\* ------------------------------------------------------- WhatsAppManager
\* The keys of self.providers setup_providers may fill
ProviderNames == {"business_api", "twilio", "web_api", "baileys"}

\* What a provider's send does: return True, return False, raise
Outcomes == {"true", "false", "raises"}

\* A process that holds no WhatsAppManager
NoWhatsApp ==
    [providers |-> {}, outcome |-> [name \in ProviderNames |-> "false"],
     tried |-> <<>>, result |-> "none"]

VARIABLES
    tz,                 \* local clock minus UTC, in hours
    now,                \* the current instant, UTC hours
    nextTick,           \* the instant the daemon loop's sleep ends
    activity_log,       \* table activity_log: rows [timestamp, activity_type]
    otp_log,            \* table otp_log: rows [otp_code, purpose, expires_at, used]
    is_running,         \* DeathSwitchAI.is_running
    trigger_activated,  \* DeathSwitchAI.trigger_activated
    kill_switch_hash,   \* config['kill_switch_hash']
    hash_file,          \* the content of the file kill_switch.hash
    outbox,             \* every send_email / send_sms call made, in order
    delivery_log,       \* table delivery_log: rows [recipient_name, delivery_method, status]
    releases,           \* number of calls of execute_death_protocol
    activated_at,       \* instant of the tick that last activated the trigger
    released_at,        \* instant of the last call of execute_death_protocol
    kill_accepted,      \* a kill-switch secret has been accepted
    restarts,           \* number of times the process has been restarted
    failures,           \* number of monitoring cycles that ended in an exception
    pc,                 \* where each concurrent monitoring cycle stands
    recipients,         \* DeathSwitchAI.recipients, from config['recipients']
    documents,          \* DeathSwitchAI.documents, from config['documents']
    preferred_language, \* each recipient's preferred_language, from config['recipients']
    config_file,        \* config.json: whether it exists and the required keys it holds
    whatsapp,           \* the WhatsAppManager: providers set up, what each answers,
                        \* and the providers tried and the value returned by a send
    fetched,            \* the row each concurrent verify_otp has fetched, 0 for none
    pidfile,            \* /tmp/death_switch.pid: <<>> for no file, else <<pid>>
    processes,          \* the pids of the daemon processes that are alive
    starts              \* each call of DeathSwitchDaemon.start: the line it stands
                        \* at and the pid it read from the pidfile

vars == <<tz, now, nextTick, activity_log, otp_log, is_running, trigger_activated,
          kill_switch_hash, hash_file, outbox, delivery_log, releases, activated_at,
          released_at, kill_accepted, restarts, failures, pc, recipients, documents,
          preferred_language, config_file, whatsapp, fetched, pidfile, processes,
          starts>>

\* The variables only the history of a run is kept in.
hist == <<releases, activated_at, released_at, kill_accepted>>

\* The pidfile and the processes of background_service.py, which no method of
\* DeathSwitchAI touches.
service == <<pidfile, processes, starts>>

\* What the operations of a constructed DeathSwitchAI leave alone: what
\* load_config read, the WhatsAppManager, which they do not call, and the
\* service around the process.
loaded == <<recipients, documents, preferred_language, config_file, whatsapp,
            service>>
rest == <<restarts, failures, pc, loaded, fetched>>

\* ------------------------------------------------------- SecurityManager
\* hashlib.pbkdf2_hmac('sha256', kill_code, salt, 100000).hex()
Pbkdf2(kill_code, salt) == "pbkdf2(" \o kill_code \o "," \o salt \o ")"

\* hash_kill_switch: the stored string "<hash>:<salt>", kept as its ':' parts
hash_kill_switch(kill_code) == <<Pbkdf2(kill_code, Salt), Salt>>

\* verify_kill_switch hashing the secret without the stored salt
verify_kill_switch_Unsalted(kill_code, stored_hash) ==
    IF Len(stored_hash) = 2
    THEN Pbkdf2(kill_code, "") = stored_hash[1]
    ELSE FALSE

\* verify_kill_switch: stored_hash.split(':') must give exactly two parts
verify_kill_switch(kill_code, stored_hash) ==
    IF Len(stored_hash) = 2
    THEN Pbkdf2(kill_code, stored_hash[2]) = stored_hash[1]
    ELSE FALSE

\* ------------------------------------------------------- DatabaseManager
\* The timestamp of the oldest row, what SELECT timestamp ... LIMIT 1 gives
MaxTimestamp_First(rows) == rows[1].timestamp

RECURSIVE MaxTimestamp(_)
MaxTimestamp(rows) ==
    IF Len(rows) = 1 THEN rows[1].timestamp
    ELSE LET m == MaxTimestamp(Tail(rows))
         IN  IF rows[1].timestamp > m THEN rows[1].timestamp ELSE m

\* get_last_activity: SELECT MAX(timestamp) FROM activity_log, NoTime for None
get_last_activity == IF activity_log = <<>> THEN NoTime ELSE MaxTimestamp(activity_log)

\* log_activity: the row's timestamp is SQLite's CURRENT_TIMESTAMP, which is UTC
log_activity(log, activity_type) ==
    Append(log, [timestamp |-> now, activity_type |-> activity_type])

\* store_otp: expires_at = datetime.now() + expiry, a local time, written by isoformat()
store_otp(log, otp, purpose, expiry_hours) ==
    Append(log, [otp_code |-> otp, purpose |-> purpose,
                 expires_at |-> now + tz + expiry_hours, used |-> FALSE])

\* expires_at > datetime('now'): both are TEXT, compared byte by byte.  The first
\* ten characters are the dates; the eleventh is 'T' in expires_at and ' ' in
\* datetime('now'), so the times of day are never compared.
ExpiresAfterNow(expires_at) ==
    LET d1 == expires_at \div HoursPerDay
        d2 == now \div HoursPerDay
    IN  d1 > d2 \/ (d1 = d2 /\ CharT > CharSpace)

\* The rows a SELECT without "AND purpose = ?" matches
OtpMatches_AnyPurpose(log, otp, purpose) ==
    {i \in 1..Len(log) : /\ log[i].otp_code = otp
                         /\ log[i].used = FALSE
                         /\ ExpiresAfterNow(log[i].expires_at)}

\* The rows verify_otp's SELECT matches
OtpMatches(log, otp, purpose) ==
    {i \in 1..Len(log) : /\ log[i].otp_code = otp
                         /\ log[i].purpose = purpose
                         /\ log[i].used = FALSE
                         /\ ExpiresAfterNow(log[i].expires_at)}

\* The rows that hold life-verification challenges
LifeRows(log) == {i \in 1..Len(log) : log[i].purpose = "life_verification"}

Min(S) == CHOOSE x \in S : \A y \in S : x <= y

\* verify_otp's return value
verify_otp(log, otp, purpose) == OtpMatches(log, otp, purpose) # {}

\* verify_otp without its UPDATE
mark_used_Nothing(log, otp, purpose) == log

\* verify_otp's effect: UPDATE otp_log SET used = TRUE for the row fetched
mark_used(log, otp, purpose) ==
    IF OtpMatches(log, otp, purpose) = {} THEN log
    ELSE [log EXCEPT ![Min(OtpMatches(log, otp, purpose))].used = TRUE]

\* --------------------------------------------------------- DeathSwitchAI
\* (datetime.now() - last_activity).days: a local time minus a UTC time
days_inactive == (now + tz - get_last_activity) \div HoursPerDay

\* What an installation holds: config.json's kill_switch_hash ("" in the sample
\* config) and the file kill_switch.hash (<<>> when there is no such file).
Installations ==
    {[config |-> <<"">>, file |-> <<>>],
     [config |-> hash_kill_switch("k1"), file |-> hash_kill_switch("k1")]}

Threads == {1, 2}

\* The invocations of "background_service.py start" that may overlap; the daemon
\* process the double fork of invocation c leaves behind has pid c.
Callers == {1, 2}

\* The pid of the daemon an earlier start left behind
OldPid == 0

\* The value of the local variable pid of start before the pidfile is read
NoPid == OldPid - 1

\* A start that has not been invoked
NotCalled == [at |-> "exists", pid |-> NoPid]

\* No pidfile, no daemon process and no start under way
ServiceStopped ==
    /\ pidfile = <<>>
    /\ processes = {}
    /\ starts = [c \in Callers |-> NotCalled]

Init ==
    /\ tz \in TZOffsets
    /\ now = StartTime
    /\ nextTick = StartTime
    /\ activity_log \in {<<>>, <<[timestamp |-> 0, activity_type |-> "manual_checkin"]>>}
    /\ otp_log = <<>>
    /\ is_running = TRUE
    /\ trigger_activated = FALSE
    /\ \E inst \in Installations :
          kill_switch_hash = inst.config /\ hash_file = inst.file
    /\ outbox = <<>>
    /\ delivery_log = <<>>
    /\ releases = 0
    /\ activated_at = NoTime
    /\ released_at = NoTime
    /\ kill_accepted = FALSE
    /\ restarts = 0
    /\ failures = 0
    /\ pc = [t \in Threads |-> "idle"]
    /\ recipients = <<"alice">>
    /\ documents = <<"will">>
    /\ preferred_language = DefaultLanguages
    /\ config_file = sample_config
    /\ whatsapp = NoWhatsApp
    /\ fetched = [t \in Threads |-> 0]
    /\ ServiceStopped

\* An hour passes.
Advance ==
    /\ now < MaxTime
    /\ now' = now + 1
    /\ UNCHANGED <<tz, nextTick, activity_log, otp_log, is_running, trigger_activated,
                   kill_switch_hash, hash_file, outbox, delivery_log, hist, rest>>

\* A check-in that also puts the trigger back to not activated
RecordActivity_ResetsTrigger ==
    /\ Len(activity_log) < MaxEvents
    /\ activity_log' = log_activity(activity_log, "manual_checkin")
    /\ trigger_activated' = FALSE
    /\ UNCHANGED <<tz, now, nextTick, otp_log, is_running,
                   kill_switch_hash, hash_file, outbox, delivery_log, hist, rest>>

\* record_activity (menu choice 3, the device monitor's heartbeat)
RecordActivity ==
    /\ Len(activity_log) < MaxEvents
    /\ activity_log' = log_activity(activity_log, "manual_checkin")
    /\ UNCHANGED <<tz, now, nextTick, otp_log, is_running, trigger_activated,
                   kill_switch_hash, hash_file, outbox, delivery_log, hist, rest>>

\* The (recipient, document) pairs in the order execute_death_protocol walks them
NumPairs == Len(recipients) * Len(documents)
\* The pairs when the loop stays on the first document of each recipient
PairAt_FirstDocument(k) ==
    [recipient |-> recipients[((k - 1) \div Len(documents)) + 1],
     document |-> documents[1]]

PairAt(k) ==
    [recipient |-> recipients[((k - 1) \div Len(documents)) + 1],
     document |-> documents[((k - 1) % Len(documents)) + 1]]

DocPurpose(recipient) == "document_access_" \o recipient

\* send_life_verification: store the code, then mail it to the owner
send_life_verification(otp, success) ==
    /\ otp_log' = store_otp(otp_log, otp, "life_verification", LifeOtpExpiryHours)
    /\ outbox' = Append(outbox, [to |-> "owner", document |-> "none",
                                 channel |-> "email", code |-> otp, ok |-> success,
                                 language |-> "english"])

\* create_secure_document_viewer for each pair: the viewer's code is stored
RECURSIVE protocol_otps(_, _, _)
protocol_otps(log, viewer_otp, k) ==
    IF k > NumPairs THEN log
    ELSE protocol_otps(store_otp(log, viewer_otp[k], DocPurpose(PairAt(k).recipient),
                                 DocOtpExpiryHours),
                       viewer_otp, k + 1)

\* the sends of execute_death_protocol: per pair the mail carrying the viewer, then
\* the SMS carrying a code of its own generate_otp() call
\* The sends of one pair when a failed mail makes the code skip the SMS
pair_sends_SmsAfterMail(viewer_otp, sms_otp, email_success, sms_success, k) ==
    IF email_success[k]
    THEN <<[to |-> PairAt(k).recipient, document |-> PairAt(k).document,
            channel |-> "email", code |-> viewer_otp[k], ok |-> TRUE,
            language |-> email_language(preferred_language[PairAt(k).recipient])],
           [to |-> PairAt(k).recipient, document |-> PairAt(k).document,
            channel |-> "sms", code |-> sms_otp[k], ok |-> sms_success[k],
            language |-> sms_language(preferred_language[PairAt(k).recipient])]>>
    ELSE <<[to |-> PairAt(k).recipient, document |-> PairAt(k).document,
            channel |-> "email", code |-> viewer_otp[k], ok |-> FALSE,
            language |-> email_language(preferred_language[PairAt(k).recipient])]>>

\* The two sends of one pair: send_email returns False on a failure and send_sms
\* is called whatever it returned
pair_sends(viewer_otp, sms_otp, email_success, sms_success, k) ==
    <<[to |-> PairAt(k).recipient, document |-> PairAt(k).document,
       channel |-> "email", code |-> viewer_otp[k], ok |-> email_success[k],
       language |-> email_language(preferred_language[PairAt(k).recipient])],
      [to |-> PairAt(k).recipient, document |-> PairAt(k).document,
       channel |-> "sms", code |-> sms_otp[k], ok |-> sms_success[k],
       language |-> sms_language(preferred_language[PairAt(k).recipient])]>>

RECURSIVE protocol_sends(_, _, _, _, _, _)
protocol_sends(box, viewer_otp, sms_otp, email_success, sms_success, k) ==
    IF k > NumPairs THEN box
    ELSE protocol_sends(
            box \o pair_sends(viewer_otp, sms_otp, email_success, sms_success, k),
            viewer_otp, sms_otp, email_success, sms_success, k + 1)

\* self.db.log_delivery(recipient.name, method, status): DatabaseManager defines
\* log_activity, get_last_activity, store_otp and verify_otp and no log_delivery.
\* The call raises AttributeError, the pair's "except Exception" logs it, and
\* table delivery_log, which no statement of the program INSERTs into, is left
\* as it was.
log_delivery(log, recipient_name, delivery_method, status) == log

\* The two log_delivery calls that end each pair of execute_death_protocol
RECURSIVE protocol_deliveries(_, _, _, _)
protocol_deliveries(log, email_success, sms_success, k) ==
    IF k > NumPairs THEN log
    ELSE protocol_deliveries(
            log_delivery(log_delivery(log, PairAt(k).recipient, "email",
                                      IF email_success[k] THEN "success" ELSE "failed"),
                         PairAt(k).recipient, "sms",
                         IF sms_success[k] THEN "success" ELSE "failed"),
            email_success, sms_success, k + 1)

execute_death_protocol ==
    \E viewer_otp \in [1..NumPairs -> Codes], sms_otp \in [1..NumPairs -> Codes],
       email_success \in [1..NumPairs -> BOOLEAN],
       sms_success \in [1..NumPairs -> BOOLEAN] :
        /\ otp_log' = protocol_otps(otp_log, viewer_otp, 1)
        /\ outbox' = protocol_sends(outbox, viewer_otp, sms_otp, email_success,
                                    sms_success, 1)
        /\ delivery_log' = protocol_deliveries(delivery_log, email_success,
                                               sms_success, 1)
        /\ releases' = releases + 1
        /\ released_at' = now

\* The daemon loop: one monitoring cycle, then time.sleep(3600)
TickLoop ==
    /\ now >= nextTick
    /\ nextTick' = now + TickHours

\* "if not self.is_running: return"
SystemDisabled_Never == FALSE
SystemDisabled == ~is_running

\* run_monitoring_cycle: "System disabled by kill switch"
TickDisabled ==
    /\ TickLoop
    /\ SystemDisabled
    /\ UNCHANGED <<tz, now, activity_log, otp_log, is_running, trigger_activated,
                   kill_switch_hash, hash_file, outbox, delivery_log, hist, rest>>

\* check_inactivity taking an empty ledger for inactivity: it returns True
TickFirstRun_Triggers ==
    /\ TickLoop
    /\ ~SystemDisabled
    /\ get_last_activity = NoTime
    /\ trigger_activated' = TRUE
    /\ \E otp \in Codes, success \in BOOLEAN : send_life_verification(otp, success)
    /\ activated_at' = now
    /\ UNCHANGED <<tz, now, activity_log, is_running, kill_switch_hash, hash_file,
                   delivery_log, releases, released_at, kill_accepted, rest>>

\* check_inactivity with an empty ledger: records "first_run", returns False
TickFirstRun ==
    /\ TickLoop
    /\ ~SystemDisabled
    /\ get_last_activity = NoTime
    /\ activity_log' = log_activity(activity_log, "first_run")
    /\ UNCHANGED <<tz, now, otp_log, is_running, trigger_activated,
                   kill_switch_hash, hash_file, outbox, delivery_log, hist, rest>>

\* check_inactivity returns False: days_inactive < inactivity_days
TickActive ==
    /\ TickLoop
    /\ ~SystemDisabled
    /\ get_last_activity # NoTime
    /\ ~(days_inactive >= inactivity_days)
    /\ UNCHANGED <<tz, now, activity_log, otp_log, is_running, trigger_activated,
                   kill_switch_hash, hash_file, outbox, delivery_log, hist, rest>>

\* "Inactivity threshold reached - activating trigger"
TickActivate ==
    /\ TickLoop
    /\ ~SystemDisabled
    /\ get_last_activity # NoTime
    /\ days_inactive >= inactivity_days
    /\ ~trigger_activated
    /\ Cardinality(LifeRows(otp_log)) < MaxOtps
    /\ trigger_activated' = TRUE
    /\ \E otp \in Codes, success \in BOOLEAN : send_life_verification(otp, success)
    /\ activated_at' = now
    /\ UNCHANGED <<tz, now, activity_log, is_running, kill_switch_hash, hash_file,
                   delivery_log, releases, released_at, kill_accepted, rest>>

\* The release branch without its last statement, self.is_running = False
TickRelease_KeepsRunning ==
    /\ TickLoop
    /\ ~SystemDisabled
    /\ get_last_activity # NoTime
    /\ days_inactive >= inactivity_days
    /\ trigger_activated
    /\ execute_death_protocol
    /\ UNCHANGED <<tz, now, activity_log, is_running, trigger_activated,
                   kill_switch_hash, hash_file, activated_at, kill_accepted, rest>>

\* "Trigger already activated - checking verification status"
TickRelease ==
    /\ TickLoop
    /\ ~SystemDisabled
    /\ get_last_activity # NoTime
    /\ days_inactive >= inactivity_days
    /\ trigger_activated
    /\ execute_death_protocol
    /\ is_running' = FALSE
    /\ UNCHANGED <<tz, now, activity_log, trigger_activated, kill_switch_hash,
                   hash_file, activated_at, kill_accepted, rest>>

run_monitoring_cycle ==
    \/ TickDisabled
    \/ TickFirstRun
    \/ TickActive
    \/ TickActivate
    \/ TickRelease

\* verify_life_response: the one-time code first, then the kill switch
VerifyByOtp(user_input) ==
    /\ verify_otp(otp_log, user_input, "life_verification")
    /\ otp_log' = mark_used(otp_log, user_input, "life_verification")
    /\ activity_log' = log_activity(activity_log, "life_verified")
    /\ UNCHANGED <<tz, now, nextTick, is_running, trigger_activated, kill_switch_hash,
                   hash_file, outbox, delivery_log, hist, rest>>

\* The kill switch checked by comparing the input with the stored text
VerifyByKillSwitch_PlainCompare(user_input) ==
    /\ ~verify_otp(otp_log, user_input, "life_verification")
    /\ user_input = kill_switch_hash[1]
    /\ is_running' = FALSE
    /\ kill_accepted' = TRUE
    /\ UNCHANGED <<tz, now, nextTick, activity_log, otp_log, trigger_activated,
                   kill_switch_hash, hash_file, outbox, delivery_log, releases,
                   activated_at, released_at, rest>>

\* "if kill_switch_hash and self.security.verify_kill_switch(...)"
VerifyByKillSwitch(user_input) ==
    /\ ~verify_otp(otp_log, user_input, "life_verification")
    /\ kill_switch_hash # <<"">>
    /\ verify_kill_switch(user_input, kill_switch_hash)
    /\ is_running' = FALSE
    /\ kill_accepted' = TRUE
    /\ UNCHANGED <<tz, now, nextTick, activity_log, otp_log, trigger_activated,
                   kill_switch_hash, hash_file, outbox, delivery_log, releases, activated_at,
                   released_at, rest>>

\* A rejection that is written to the ledger as an event
VerifyRejected_Records(user_input) ==
    /\ ~verify_otp(otp_log, user_input, "life_verification")
    /\ ~(kill_switch_hash # <<"">> /\ verify_kill_switch(user_input, kill_switch_hash))
    /\ activity_log' = log_activity(activity_log, "verification_failed")
    /\ UNCHANGED <<tz, now, nextTick, otp_log, is_running, trigger_activated,
                   kill_switch_hash, hash_file, outbox, delivery_log, hist, rest>>

\* "Invalid verification code or kill switch": return False
VerifyRejected(user_input) ==
    /\ ~verify_otp(otp_log, user_input, "life_verification")
    /\ ~(kill_switch_hash # <<"">> /\ verify_kill_switch(user_input, kill_switch_hash))
    /\ UNCHANGED <<tz, now, nextTick, activity_log, otp_log, is_running,
                   trigger_activated, kill_switch_hash, hash_file, outbox, delivery_log, hist, rest>>

verify_life_response ==
    \E user_input \in Inputs :
        \/ VerifyByOtp(user_input)
        \/ VerifyByKillSwitch(user_input)
        \/ VerifyRejected(user_input)

\* POST /kill-switch: the secret is checked against the file kill_switch.hash
KillSwitchAccepted(user_code) ==
    /\ hash_file # <<>>
    /\ verify_kill_switch(user_code, hash_file)
    /\ trigger_activated' = FALSE
    /\ kill_accepted' = TRUE
    /\ UNCHANGED <<tz, now, nextTick, activity_log, otp_log, is_running,
                   kill_switch_hash, hash_file, outbox, delivery_log, releases, activated_at,
                   released_at, rest>>

KillSwitchInvalid(user_code) ==
    /\ hash_file # <<>>
    /\ ~verify_kill_switch(user_code, hash_file)
    /\ UNCHANGED <<tz, now, nextTick, activity_log, otp_log, is_running,
                   trigger_activated, kill_switch_hash, hash_file, outbox, delivery_log, hist, rest>>

\* open("kill_switch.hash", "r") raises FileNotFoundError
FileNotFound == hash_file = <<>>

\* The exception leaves the handler: no state is changed, the answer is an error
KillSwitchRaises(user_code) ==
    /\ FileNotFound
    /\ UNCHANGED vars

kill_switch ==
    \E user_code \in Secrets :
        \/ KillSwitchAccepted(user_code)
        \/ KillSwitchInvalid(user_code)
        \/ KillSwitchRaises(user_code)

Next ==
    \/ Advance
    \/ RecordActivity
    \/ run_monitoring_cycle
    \/ verify_life_response
    \/ kill_switch

Spec == Init /\ [][Next]_vars

\* GET /status: a read of the ledger; "system" is the literal "active" and
\* "days_remaining" is dsa.inactivity_days itself
get_status ==
    [system |-> "active",
     last_activity |-> get_last_activity,
     days_remaining |-> inactivity_days]

\* ------------------------------------------------ the process is restarted
\* A new process constructs DeathSwitchAI again (daemon restart, reboot): the
\* database and config.json are what they were, the two flags start afresh and
\* the daemon loop runs its first cycle at once.
Restart ==
    /\ restarts < MaxRestarts
    /\ restarts' = restarts + 1
    /\ is_running' = TRUE
    /\ trigger_activated' = FALSE
    /\ nextTick' = now
    /\ UNCHANGED <<tz, now, activity_log, otp_log, kill_switch_hash, hash_file,
                   outbox, delivery_log, hist, failures, pc, loaded, fetched>>

\* The owner has set a kill switch and, at most, uses it; the local clock is
\* ahead of UTC.
InitRestart ==
    /\ Init
    /\ tz = MaxTZ
    /\ kill_switch_hash # <<"">>

NextRestart ==
    \/ Advance
    \/ run_monitoring_cycle
    \/ \E user_input \in Secrets : VerifyByKillSwitch(user_input)
    \/ Restart

SpecRestart == InitRestart /\ [][NextRestart]_vars

\* ------------------------------- monitoring cycles that run concurrently
\* Several threads run run_monitoring_cycle on one DeathSwitchAI; a step is what
\* a thread does between two reads or writes of the shared flags.

\* "if not self.is_running: return", then "if self.check_inactivity():"
CycleStart(t) ==
    /\ pc[t] = "idle"
    /\ ~SystemDisabled
    /\ IF get_last_activity = NoTime
       THEN /\ activity_log' = log_activity(activity_log, "first_run")
            /\ pc' = pc
       ELSE /\ activity_log' = activity_log
            /\ pc' = [pc EXCEPT ![t] = IF days_inactive >= inactivity_days
                                       THEN "inactive" ELSE "idle"]
    /\ UNCHANGED <<tz, now, nextTick, otp_log, is_running, trigger_activated,
                   kill_switch_hash, hash_file, outbox, delivery_log, hist, restarts, failures,
                   loaded, fetched>>

\* "if not self.trigger_activated:"
CycleBranch(t) ==
    /\ pc[t] = "inactive"
    /\ pc' = [pc EXCEPT ![t] = IF trigger_activated THEN "release" ELSE "activate"]
    /\ UNCHANGED <<tz, now, nextTick, activity_log, otp_log, is_running,
                   trigger_activated, kill_switch_hash, hash_file, outbox, delivery_log, hist, restarts, failures,
                   loaded, fetched>>

\* "self.trigger_activated = True; self.send_life_verification()"
CycleActivate(t) ==
    /\ pc[t] = "activate"
    /\ trigger_activated' = TRUE
    /\ \E otp \in Codes, success \in BOOLEAN : send_life_verification(otp, success)
    /\ activated_at' = now
    /\ pc' = [pc EXCEPT ![t] = "idle"]
    /\ UNCHANGED <<tz, now, nextTick, activity_log, is_running, kill_switch_hash,
                   hash_file, delivery_log, releases, released_at, kill_accepted,
                   restarts, failures, loaded, fetched>>

\* "self.execute_death_protocol()"
CycleRelease(t) ==
    /\ pc[t] = "release"
    /\ execute_death_protocol
    /\ pc' = [pc EXCEPT ![t] = "finish"]
    /\ UNCHANGED <<tz, now, nextTick, activity_log, is_running, trigger_activated,
                   kill_switch_hash, hash_file, activated_at, kill_accepted, restarts, failures,
                   loaded, fetched>>

\* "self.is_running = False"
CycleFinish(t) ==
    /\ pc[t] = "finish"
    /\ is_running' = FALSE
    /\ pc' = [pc EXCEPT ![t] = "idle"]
    /\ UNCHANGED <<tz, now, nextTick, activity_log, otp_log, trigger_activated,
                   kill_switch_hash, hash_file, outbox, delivery_log, hist, restarts, failures,
                   loaded, fetched>>

\* The cycles start at the hour the seeded check-in counts as a day old.
InitConc ==
    /\ Init
    /\ tz = MaxTZ
    /\ kill_switch_hash = <<"">>

NextConc ==
    \E t \in Threads :
        \/ CycleStart(t)
        \/ CycleBranch(t)
        \/ CycleActivate(t)
        \/ CycleRelease(t)
        \/ CycleFinish(t)

SpecConc == InitConc /\ [][NextConc]_vars

\* ------------------------- verification responses that run concurrently
\* Several callers run verify_life_response on one database, each verify_otp on
\* a connection of its own; a step is one SQL statement.

\* verify_otp: the SELECT and fetchone(); without a row the response is rejected
VerifySelect(t, user_input) ==
    /\ pc[t] = "idle"
    /\ IF verify_otp(otp_log, user_input, "life_verification")
       THEN /\ fetched' = [fetched EXCEPT ![t] =
                              Min(OtpMatches(otp_log, user_input, "life_verification"))]
            /\ pc' = [pc EXCEPT ![t] = "update"]
       ELSE /\ fetched' = fetched
            /\ pc' = pc
    /\ UNCHANGED <<tz, now, nextTick, activity_log, otp_log, is_running,
                   trigger_activated, kill_switch_hash, hash_file, outbox, delivery_log, hist,
                   restarts, failures, loaded>>

\* verify_otp: "UPDATE otp_log SET used = TRUE WHERE id = ?" and the commit
VerifyUpdate(t) ==
    /\ pc[t] = "update"
    /\ otp_log' = [otp_log EXCEPT ![fetched[t]].used = TRUE]
    /\ pc' = [pc EXCEPT ![t] = "record"]
    /\ UNCHANGED <<tz, now, nextTick, activity_log, is_running, trigger_activated,
                   kill_switch_hash, hash_file, outbox, delivery_log, hist, restarts, failures, loaded,
                   fetched>>

\* verify_life_response: self.record_activity("life_verified"), return True
VerifyRecord(t) ==
    /\ pc[t] = "record"
    /\ activity_log' = log_activity(activity_log, "life_verified")
    /\ pc' = [pc EXCEPT ![t] = "idle"]
    /\ fetched' = [fetched EXCEPT ![t] = 0]
    /\ UNCHANGED <<tz, now, nextTick, otp_log, is_running, trigger_activated,
                   kill_switch_hash, hash_file, outbox, delivery_log, hist, restarts, failures, loaded>>

\* The owner has checked in a day ago and has set no kill switch.
InitVerify ==
    /\ Init
    /\ activity_log # <<>>
    /\ kill_switch_hash = <<"">>

NextVerify ==
    \/ Advance
    \/ TickActivate
    \/ \E t \in Threads :
          \/ \E user_input \in Codes : VerifySelect(t, user_input)
          \/ VerifyUpdate(t)
          \/ VerifyRecord(t)

SpecVerify == InitVerify /\ [][NextVerify]_vars

\* ------------------------------------- a challenge issued before midnight
\* The local clock is behind UTC and the owner's last check-in is a day old an
\* hour before midnight UTC: the challenge is issued on one date and answered
\* on the next.
InitMidnight ==
    /\ tz = 0 - MaxTZ
    /\ now = StartTime
    /\ nextTick = StartTime
    /\ activity_log \in {<<>>, <<[timestamp |-> 0 - 2 * MaxTZ,
                                  activity_type |-> "manual_checkin"]>>}
    /\ otp_log = <<>>
    /\ is_running = TRUE
    /\ trigger_activated = FALSE
    /\ \E inst \in Installations :
          kill_switch_hash = inst.config /\ hash_file = inst.file
    /\ outbox = <<>>
    /\ delivery_log = <<>>
    /\ releases = 0
    /\ activated_at = NoTime
    /\ released_at = NoTime
    /\ kill_accepted = FALSE
    /\ restarts = 0
    /\ failures = 0
    /\ pc = [t \in Threads |-> "idle"]
    /\ recipients = <<"alice">>
    /\ documents = <<"will">>
    /\ preferred_language = DefaultLanguages
    /\ config_file = sample_config
    /\ whatsapp = NoWhatsApp
    /\ fetched = [t \in Threads |-> 0]
    /\ ServiceStopped

SpecMidnight == InitMidnight /\ [][Next]_vars

\* ------------------------------------ what the stored kill switch may be
\* The secrets checked against a stored value: those an owner may have set, the
\* empty string, and the salt of the stored value.
KillInputs == Secrets \cup {"", Salt}

\* What config['kill_switch_hash'] or kill_switch.hash may hold, as the parts
\* split(':') gives: nothing, the output of hash_kill_switch, a text without
\* ':', a text with two ':'.
StoredValues ==
    {<<"">>, <<"corrupt">>, <<Pbkdf2("k1", Salt), Salt, "more">>}
    \cup {hash_kill_switch(kill_code) : kill_code \in KillInputs}

InitInstall ==
    /\ tz \in TZOffsets
    /\ now = StartTime
    /\ nextTick = StartTime
    /\ activity_log \in {<<>>, <<[timestamp |-> 0, activity_type |-> "manual_checkin"]>>}
    /\ otp_log = <<>>
    /\ is_running = TRUE
    /\ trigger_activated = FALSE
    /\ kill_switch_hash \in StoredValues
    /\ hash_file \in StoredValues \cup {<<>>}
    /\ outbox = <<>>
    /\ delivery_log = <<>>
    /\ releases = 0
    /\ activated_at = NoTime
    /\ released_at = NoTime
    /\ kill_accepted = FALSE
    /\ restarts = 0
    /\ failures = 0
    /\ pc = [t \in Threads |-> "idle"]
    /\ recipients = <<"alice">>
    /\ documents = <<"will">>
    /\ preferred_language = DefaultLanguages
    /\ config_file = sample_config
    /\ whatsapp = NoWhatsApp
    /\ fetched = [t \in Threads |-> 0]
    /\ ServiceStopped

NextInstall ==
    \E user_input \in KillInputs :
        \/ VerifyByKillSwitch(user_input)
        \/ VerifyRejected(user_input)
        \/ KillSwitchAccepted(user_input)
        \/ KillSwitchInvalid(user_input)
        \/ KillSwitchRaises(user_input)

SpecInstall == InitInstall /\ [][NextInstall]_vars

\* ----------------------------------- releases to several recipients
\* The installation holds one or two recipients and one or two documents; the
\* owner's last check-in is a day old and nothing answers the challenge.
InitRelease ==
    /\ tz = MaxTZ
    /\ now = StartTime
    /\ nextTick = StartTime
    /\ activity_log = <<[timestamp |-> 0, activity_type |-> "manual_checkin"]>>
    /\ otp_log = <<>>
    /\ is_running = TRUE
    /\ trigger_activated = FALSE
    /\ kill_switch_hash = <<"">>
    /\ hash_file = <<>>
    /\ outbox = <<>>
    /\ delivery_log = <<>>
    /\ releases = 0
    /\ activated_at = NoTime
    /\ released_at = NoTime
    /\ kill_accepted = FALSE
    /\ restarts = 0
    /\ failures = 0
    /\ pc = [t \in Threads |-> "idle"]
    /\ recipients \in ConfiguredRecipients
    /\ documents \in ConfiguredDocuments
    /\ preferred_language = DefaultLanguages
    /\ config_file = sample_config
    /\ Len(recipients) * Len(documents) <= MaxPairs
    /\ whatsapp = NoWhatsApp
    /\ fetched = [t \in Threads |-> 0]
    /\ ServiceStopped

NextRelease ==
    \/ Advance
    \/ TickActivate
    \/ TickRelease
    \/ TickDisabled

SpecRelease == InitRelease /\ [][NextRelease]_vars

\* ------------------------------- installations with nothing to release
\* load_config requires the keys 'recipients' and 'documents' to be present and
\* accepts empty lists for them: the installations of SpecRelease and those
\* whose config.json holds "recipients": [] or "documents": [].
InitEmpty ==
    /\ tz = MaxTZ
    /\ now = StartTime
    /\ nextTick = StartTime
    /\ activity_log = <<[timestamp |-> 0, activity_type |-> "manual_checkin"]>>
    /\ otp_log = <<>>
    /\ is_running = TRUE
    /\ trigger_activated = FALSE
    /\ kill_switch_hash = <<"">>
    /\ hash_file = <<>>
    /\ outbox = <<>>
    /\ delivery_log = <<>>
    /\ releases = 0
    /\ activated_at = NoTime
    /\ released_at = NoTime
    /\ kill_accepted = FALSE
    /\ restarts = 0
    /\ failures = 0
    /\ pc = [t \in Threads |-> "idle"]
    /\ recipients \in ConfiguredRecipients \cup {<<>>}
    /\ documents \in ConfiguredDocuments \cup {<<>>}
    /\ preferred_language = DefaultLanguages
    /\ config_file = sample_config
    /\ Len(recipients) * Len(documents) <= MaxPairs
    /\ whatsapp = NoWhatsApp
    /\ fetched = [t \in Threads |-> 0]
    /\ ServiceStopped

SpecEmpty == InitEmpty /\ [][NextRelease]_vars

\* --------------------------------------------------- the process starts
\* run_daemon constructs DeathSwitchAI and enters its loop only when the
\* constructor has returned; pc[1] is "start" before the construction, "idle"
\* in the loop and "exited" after sys.exit(1).

\* load_config with no test of the required keys
ConfigLoads_AnyKeys(file) == file.exists

\* load_config returns: the file opens and holds every required key
ConfigLoads(file) == file.exists /\ \A key \in required_keys : key \in file.keys

\* DeathSwitchAI(config_file) returns; the loop runs its first cycle at once
ConstructOk ==
    /\ pc[1] = "start"
    /\ ConfigLoads(config_file)
    /\ recipients' = <<"alice">>
    /\ documents' = <<"will">>
    /\ preferred_language' = DefaultLanguages
    /\ is_running' = TRUE
    /\ trigger_activated' = FALSE
    /\ pc' = [pc EXCEPT ![1] = "idle"]
    /\ UNCHANGED <<tz, now, nextTick, activity_log, otp_log, kill_switch_hash,
                   hash_file, outbox, delivery_log, hist, restarts, failures, config_file,
                   whatsapp, fetched, service>>

\* load_config raises: FileNotFoundError after create_sample_config has written
\* a sample file, ValueError for a missing key.  run_daemon logs "Failed to
\* start daemon" and exits.
ConstructFails ==
    /\ pc[1] = "start"
    /\ ~ConfigLoads(config_file)
    /\ config_file' = IF config_file.exists THEN config_file ELSE sample_config
    /\ pc' = [pc EXCEPT ![1] = "exited"]
    /\ UNCHANGED <<tz, now, nextTick, activity_log, otp_log, is_running,
                   trigger_activated, kill_switch_hash, hash_file, outbox,
                   delivery_log, hist, restarts, failures, recipients, documents,
                   preferred_language, whatsapp, fetched, service>>

\* "while True: death_switch.run_monitoring_cycle()"
DaemonCycle ==
    /\ pc[1] = "idle"
    /\ run_monitoring_cycle

\* No DeathSwitchAI has been constructed yet; the local clock is ahead of UTC.
InitStartup ==
    /\ tz = MaxTZ
    /\ now = StartTime
    /\ nextTick = StartTime
    /\ activity_log \in {<<>>, <<[timestamp |-> 0, activity_type |-> "manual_checkin"]>>}
    /\ otp_log = <<>>
    /\ is_running = FALSE
    /\ trigger_activated = FALSE
    /\ kill_switch_hash = <<"">>
    /\ hash_file = <<>>
    /\ outbox = <<>>
    /\ delivery_log = <<>>
    /\ releases = 0
    /\ activated_at = NoTime
    /\ released_at = NoTime
    /\ kill_accepted = FALSE
    /\ restarts = 0
    /\ failures = 0
    /\ pc = [t \in Threads |-> IF t = 1 THEN "start" ELSE "idle"]
    /\ recipients = <<>>
    /\ documents = <<>>
    /\ preferred_language = DefaultLanguages
    /\ config_file \in ConfigFiles
    /\ whatsapp = NoWhatsApp
    /\ fetched = [t \in Threads |-> 0]
    /\ ServiceStopped

NextStartup ==
    \/ Advance
    \/ ConstructOk
    \/ ConstructFails
    \/ DaemonCycle

SpecStartup == InitStartup /\ [][NextStartup]_vars

\* ------------------------------------- monitoring cycles that fail
\* The loop of run_daemon: "try: run_monitoring_cycle(); time.sleep(3600)
\* except Exception: log; time.sleep(300)".

\* The loop when an exception leaves it: the process ends
TickRaises_Exits ==
    /\ pc[1] = "idle"
    /\ TickLoop
    /\ ~SystemDisabled
    /\ failures < MaxFailures
    /\ failures' = failures + 1
    /\ pc' = [pc EXCEPT ![1] = "exited"]
    /\ UNCHANGED <<tz, now, activity_log, otp_log, is_running, trigger_activated,
                   kill_switch_hash, hash_file, outbox, delivery_log, hist, restarts,
                   loaded, fetched>>

\* A cycle of a running system raises at its first statement that can, the
\* database read of check_inactivity (sqlite3.connect, SELECT MAX(timestamp)):
\* nothing has been written; the except clause logs the error and the loop
\* sleeps five minutes before its next cycle.
TickRaises ==
    /\ pc[1] = "idle"
    /\ now >= nextTick
    /\ ~SystemDisabled
    /\ failures < MaxFailures
    /\ failures' = failures + 1
    /\ nextTick' = now + RetryHours
    /\ UNCHANGED <<tz, now, activity_log, otp_log, is_running, trigger_activated,
                   kill_switch_hash, hash_file, outbox, delivery_log, hist, restarts,
                   pc, loaded, fetched>>

\* One pass of the loop
DaemonTick == DaemonCycle \/ TickRaises

\* The owner has set no kill switch; the local clock is ahead of UTC.
InitDaemon ==
    /\ Init
    /\ tz = MaxTZ
    /\ kill_switch_hash = <<"">>

NextDaemon ==
    \/ Advance
    \/ DaemonCycle
    \/ TickRaises

\* The loop is the only thing its thread does: a pass that is due is made.
SpecDaemon == InitDaemon /\ [][NextDaemon]_vars /\ WF_vars(DaemonTick)

\* ------------------------------------------ a peer that never answers
\* send_email opens smtplib.SMTP(self.smtp_server, self.smtp_port) with no
\* timeout argument and nothing sets a default socket timeout: when the server
\* accepts the connection and sends nothing, the call waits for the greeting
\* without end.  No exception is raised, so no except clause runs; pc[1] is
\* "send_email" while the process is inside the call.

\* The activating cycle: the flag is set and the code stored, then send_email
\* is entered and does not return
TickActivateBlocks ==
    /\ pc[1] = "idle"
    /\ now >= nextTick
    /\ ~SystemDisabled
    /\ get_last_activity # NoTime
    /\ days_inactive >= inactivity_days
    /\ ~trigger_activated
    /\ Cardinality(LifeRows(otp_log)) < MaxOtps
    /\ trigger_activated' = TRUE
    /\ \E otp \in Codes :
          otp_log' = store_otp(otp_log, otp, "life_verification", LifeOtpExpiryHours)
    /\ activated_at' = now
    /\ pc' = [pc EXCEPT ![1] = "send_email"]
    /\ UNCHANGED <<tz, now, nextTick, activity_log, is_running, kill_switch_hash,
                   hash_file, outbox, delivery_log, releases, released_at,
                   kill_accepted, restarts, failures, loaded, fetched>>

\* The releasing cycle: the viewer of the first pair is made and its code
\* stored, then send_email is entered and does not return
TickReleaseBlocks ==
    /\ pc[1] = "idle"
    /\ now >= nextTick
    /\ ~SystemDisabled
    /\ get_last_activity # NoTime
    /\ days_inactive >= inactivity_days
    /\ trigger_activated
    /\ NumPairs > 0
    /\ \E viewer_otp \in Codes :
          otp_log' = store_otp(otp_log, viewer_otp, DocPurpose(PairAt(1).recipient),
                               DocOtpExpiryHours)
    /\ releases' = releases + 1
    /\ released_at' = now
    /\ pc' = [pc EXCEPT ![1] = "send_email"]
    /\ UNCHANGED <<tz, now, nextTick, activity_log, is_running, trigger_activated,
                   kill_switch_hash, hash_file, outbox, delivery_log, activated_at,
                   kill_accepted, restarts, failures, loaded, fetched>>

NextBlocks ==
    \/ Advance
    \/ DaemonCycle
    \/ TickActivateBlocks
    \/ TickReleaseBlocks

\* The loop makes every pass that is due; a pass is due when the one before it
\* has returned.
SpecBlocks == InitDaemon /\ [][NextBlocks]_vars /\ WF_vars(DaemonCycle)

\* ------------------------------------------- the kill switch is set again
\* set_kill_switch (menu choice 2): the new hash goes to self.config and the
\* whole of self.config is written to config.json; the file kill_switch.hash is
\* not touched.
set_kill_switch(kill_code) ==
    /\ kill_switch_hash' = hash_kill_switch(kill_code)
    /\ config_file' = [exists |-> TRUE, keys |-> required_keys]
    /\ UNCHANGED <<tz, now, nextTick, activity_log, otp_log, is_running,
                   trigger_activated, hash_file, outbox, delivery_log, hist,
                   restarts, failures, pc, recipients, documents, preferred_language,
                   whatsapp, fetched, service>>

\* The local clock is UTC.
InitKill ==
    /\ Init
    /\ tz = 0

NextKill ==
    \/ Advance
    \/ run_monitoring_cycle
    \/ \E kill_code \in Secrets : set_kill_switch(kill_code)
    \/ \E user_input \in Secrets :
          \/ VerifyByKillSwitch(user_input)
          \/ VerifyRejected(user_input)
    \/ kill_switch

SpecKill == InitKill /\ [][NextKill]_vars

\* -------------------------------------------- a WhatsApp message is sent
\* send_message in the order the providers were set up in
provider_order_AsSetUp == <<"twilio", "business_api", "web_api", "baileys">>

\* send_message's provider_order
provider_order == <<"business_api", "twilio", "web_api", "baileys">>

\* The loop of send_message from provider_order[k] on: a name that is not in
\* self.providers is passed over; a provider that returns True ends the loop
\* with True; one that returns False or raises is followed by the next; the
\* end of the list gives False.
RECURSIVE try_providers(_, _)
try_providers(k, tried) ==
    IF k > Len(provider_order) THEN [tried |-> tried, result |-> "false"]
    ELSE LET provider_name == provider_order[k]
         IN  IF provider_name \notin whatsapp.providers
             THEN try_providers(k + 1, tried)
             ELSE IF whatsapp.outcome[provider_name] = "true"
                  THEN [tried |-> Append(tried, provider_name), result |-> "true"]
                  ELSE try_providers(k + 1, Append(tried, provider_name))

\* WhatsAppManager.send_message
send_message ==
    /\ whatsapp' = [whatsapp EXCEPT !.tried = try_providers(1, <<>>).tried,
                                    !.result = try_providers(1, <<>>).result]
    /\ UNCHANGED <<tz, now, nextTick, activity_log, otp_log, is_running,
                   trigger_activated, kill_switch_hash, hash_file, outbox,
                   delivery_log, hist, restarts, failures, pc, recipients,
                   documents, preferred_language, config_file, fetched, service>>

\* A WhatsAppManager set up from a config that holds the keys of any of the
\* four providers, each provider answering in one of the three ways.
InitWhatsApp ==
    /\ tz = 0
    /\ now = StartTime
    /\ nextTick = StartTime
    /\ activity_log = <<>>
    /\ otp_log = <<>>
    /\ is_running = TRUE
    /\ trigger_activated = FALSE
    /\ kill_switch_hash = <<"">>
    /\ hash_file = <<>>
    /\ outbox = <<>>
    /\ delivery_log = <<>>
    /\ releases = 0
    /\ activated_at = NoTime
    /\ released_at = NoTime
    /\ kill_accepted = FALSE
    /\ restarts = 0
    /\ failures = 0
    /\ pc = [t \in Threads |-> "idle"]
    /\ recipients = <<"alice">>
    /\ documents = <<"will">>
    /\ preferred_language = DefaultLanguages
    /\ config_file = sample_config
    /\ \E providers \in SUBSET ProviderNames, outcome \in [ProviderNames -> Outcomes] :
          whatsapp = [providers |-> providers, outcome |-> outcome,
                      tried |-> <<>>, result |-> "none"]
    /\ fetched = [t \in Threads |-> 0]
    /\ ServiceStopped

SpecWhatsApp == InitWhatsApp /\ [][send_message]_vars

\* ----------------------------------- the challenge cannot be stored
\* The activating cycle when store_otp raises (sqlite3.OperationalError, the
\* database locked or unwritable): run_monitoring_cycle has set
\* self.trigger_activated = True on the line before send_life_verification and
\* has no handler of its own, so the exception reaches run_daemon's except
\* with the flag set, no code stored and no mail sent; the loop sleeps five
\* minutes.
TickActivateRaises ==
    /\ pc[1] = "idle"
    /\ now >= nextTick
    /\ ~SystemDisabled
    /\ get_last_activity # NoTime
    /\ days_inactive >= inactivity_days
    /\ ~trigger_activated
    /\ failures < MaxFailures
    /\ trigger_activated' = TRUE
    /\ activated_at' = now
    /\ failures' = failures + 1
    /\ nextTick' = now + RetryHours
    /\ UNCHANGED <<tz, now, activity_log, otp_log, is_running, kill_switch_hash,
                   hash_file, outbox, delivery_log, releases, released_at,
                   kill_accepted, restarts, pc, loaded, fetched>>

NextRetry ==
    \/ Advance
    \/ DaemonCycle
    \/ TickRaises
    \/ TickActivateRaises

SpecRetry == InitDaemon /\ [][NextRetry]_vars

\* --------------------------------------- a second period of inactivity
\* The process is followed for inactivity_days more than the window, long
\* enough for an owner who answered a challenge or checked in to fall silent
\* again.
LongTime == MaxTime + inactivity_days * HoursPerDay

\* An hour passes; the daemon loop has run the cycle of the hour.
AdvanceLong ==
    /\ now < LongTime
    /\ nextTick > now
    /\ now' = now + 1
    /\ UNCHANGED <<tz, nextTick, activity_log, otp_log, is_running, trigger_activated,
                   kill_switch_hash, hash_file, outbox, delivery_log, hist, rest>>

\* The owner checks in or answers a challenge during the window, and not after
OwnerActs ==
    /\ now <= MaxTime
    /\ \/ RecordActivity
       \/ \E user_input \in Codes : VerifyByOtp(user_input)

\* The owner checked in a day ago and has set no kill switch; the local clock
\* is UTC.
InitPeriod ==
    /\ Init
    /\ tz = 0
    /\ activity_log # <<>>
    /\ kill_switch_hash = <<"">>

NextPeriod ==
    \/ AdvanceLong
    \/ OwnerActs
    \/ TickActive
    \/ TickActivate
    \/ TickRelease
    \/ TickDisabled

SpecPeriod == InitPeriod /\ [][NextPeriod]_vars

\* ------------------------------------------- a process west of UTC
\* The local clock is UTC, or behind UTC by more than the hour a challenge
\* code lives; the process is started at midnight UTC, when the owner's last
\* check-in is inactivity_days old on either clock.
West == 0 - MaxTZ - LifeOtpExpiryHours

InitWest ==
    /\ tz \in {West, 0}
    /\ now = inactivity_days * HoursPerDay
    /\ nextTick = inactivity_days * HoursPerDay
    /\ activity_log \in {<<>>, <<[timestamp |-> West,
                                  activity_type |-> "manual_checkin"]>>}
    /\ otp_log = <<>>
    /\ is_running = TRUE
    /\ trigger_activated = FALSE
    /\ \E inst \in Installations :
          kill_switch_hash = inst.config /\ hash_file = inst.file
    /\ outbox = <<>>
    /\ delivery_log = <<>>
    /\ releases = 0
    /\ activated_at = NoTime
    /\ released_at = NoTime
    /\ kill_accepted = FALSE
    /\ restarts = 0
    /\ failures = 0
    /\ pc = [t \in Threads |-> "idle"]
    /\ recipients = <<"alice">>
    /\ documents = <<"will">>
    /\ preferred_language = DefaultLanguages
    /\ config_file = sample_config
    /\ whatsapp = NoWhatsApp
    /\ fetched = [t \in Threads |-> 0]
    /\ ServiceStopped

SpecWest == InitWest /\ [][Next]_vars

\* ------------------------------------- recipients' language tags
\* load_config builds each Recipient from its config.json entry as it stands,
\* so preferred_language is whatever string the file holds; a recipient that is
\* not configured keeps the default.
InitLanguage ==
    /\ tz = MaxTZ
    /\ now = StartTime
    /\ nextTick = StartTime
    /\ activity_log = <<[timestamp |-> 0, activity_type |-> "manual_checkin"]>>
    /\ otp_log = <<>>
    /\ is_running = TRUE
    /\ trigger_activated = FALSE
    /\ kill_switch_hash = <<"">>
    /\ hash_file = <<>>
    /\ outbox = <<>>
    /\ delivery_log = <<>>
    /\ releases = 0
    /\ activated_at = NoTime
    /\ released_at = NoTime
    /\ kill_accepted = FALSE
    /\ restarts = 0
    /\ failures = 0
    /\ pc = [t \in Threads |-> "idle"]
    /\ recipients \in ConfiguredRecipients
    /\ documents \in ConfiguredDocuments
    /\ preferred_language \in [{"alice", "bob"} -> Tags]
    /\ \A r \in {"alice", "bob"} :
          (\A i \in 1..Len(recipients) : recipients[i] # r) =>
             preferred_language[r] = DefaultLanguages[r]
    /\ config_file = sample_config
    /\ Len(recipients) * Len(documents) <= MaxPairs
    /\ whatsapp = NoWhatsApp
    /\ fetched = [t \in Threads |-> 0]
    /\ ServiceStopped

SpecLanguage == InitLanguage /\ [][NextRelease]_vars

\* ------------------------------------------- starting the daemon
\* "background_service.py start" may be invoked while another invocation is
\* under way; each is its own process and runs DeathSwitchDaemon.start line by
\* line, and nothing but the pidfile is shared between them.

\* Everything but the pidfile, the processes and the starts
monitoring == <<tz, now, nextTick, activity_log, otp_log, is_running,
                trigger_activated, kill_switch_hash, hash_file, outbox,
                delivery_log, hist, restarts, failures, pc, recipients, documents,
                preferred_language, config_file, whatsapp, fetched>>

\* The daemon processes that are in the loop of run_daemon
Looping == {p \in processes : p = OldPid \/ starts[p].at = "loop"}

\* if os.path.exists(self.pidfile)
StartExists(c) ==
    /\ starts[c].at = "exists"
    /\ starts' = [starts EXCEPT ![c].at = IF pidfile # <<>> THEN "read" ELSE "fork"]
    /\ UNCHANGED <<pidfile, processes, monitoring>>

\* with open(self.pidfile, 'r') as f: pid = int(f.read().strip()); open raises
\* FileNotFoundError when the file has been removed since the test
StartRead(c) ==
    /\ starts[c].at = "read"
    /\ starts' = [starts EXCEPT ![c] =
                     IF pidfile = <<>> THEN [at |-> "raised", pid |-> NoPid]
                     ELSE [at |-> "kill", pid |-> pidfile[1]]]
    /\ UNCHANGED <<pidfile, processes, monitoring>>

\* os.kill(pid, 0): "Daemon already running!" and return when the process
\* exists, OSError when it does not
StartKill(c) ==
    /\ starts[c].at = "kill"
    /\ starts' = [starts EXCEPT ![c].at =
                     IF starts[c].pid \in processes THEN "returned" ELSE "remove"]
    /\ UNCHANGED <<pidfile, processes, monitoring>>

\* except OSError: os.remove(self.pidfile), of whatever file is there by now;
\* FileNotFoundError leaves the handler when there is none
StartRemove(c) ==
    /\ starts[c].at = "remove"
    /\ starts' = [starts EXCEPT ![c].at = IF pidfile = <<>> THEN "raised" ELSE "fork"]
    /\ pidfile' = <<>>
    /\ UNCHANGED <<processes, monitoring>>

\* daemonize up to the redirection of the file descriptors: the two forks leave
\* one new process
DaemonizeFork(c) ==
    /\ starts[c].at = "fork"
    /\ processes' = processes \cup {c}
    /\ starts' = [starts EXCEPT ![c].at = "write"]
    /\ UNCHANGED <<pidfile, monitoring>>

\* daemonize: with open(self.pidfile, 'w') as f: f.write(f"{os.getpid()}\n")
DaemonizeWrite(c) ==
    /\ starts[c].at = "write"
    /\ c \in processes
    /\ pidfile' = <<c>>
    /\ starts' = [starts EXCEPT ![c].at = "run"]
    /\ UNCHANGED <<processes, monitoring>>

\* self.run_daemon(): the process constructs DeathSwitchAI and enters the loop
run_daemon(c) ==
    /\ starts[c].at = "run"
    /\ c \in processes
    /\ starts' = [starts EXCEPT ![c].at = "loop"]
    /\ UNCHANGED <<pidfile, processes, monitoring>>

\* A daemon process ends with no signal handler run (sys.exit(1) of run_daemon,
\* SIGKILL, a power cut): cleanup is not called and the pidfile stays.
ProcessEnds(p) ==
    /\ p \in processes
    /\ processes' = processes \ {p}
    /\ UNCHANGED <<pidfile, starts, monitoring>>

\* Before the starts: no pidfile, or the pidfile of an earlier daemon that is
\* still running or has ended without cleanup.
InitStart ==
    /\ tz = 0
    /\ now = StartTime
    /\ nextTick = StartTime
    /\ activity_log = <<[timestamp |-> 0, activity_type |-> "manual_checkin"]>>
    /\ otp_log = <<>>
    /\ is_running = TRUE
    /\ trigger_activated = FALSE
    /\ kill_switch_hash = <<"">>
    /\ hash_file = <<>>
    /\ outbox = <<>>
    /\ delivery_log = <<>>
    /\ releases = 0
    /\ activated_at = NoTime
    /\ released_at = NoTime
    /\ kill_accepted = FALSE
    /\ restarts = 0
    /\ failures = 0
    /\ pc = [t \in Threads |-> "idle"]
    /\ recipients = <<"alice">>
    /\ documents = <<"will">>
    /\ preferred_language = DefaultLanguages
    /\ config_file = sample_config
    /\ whatsapp = NoWhatsApp
    /\ fetched = [t \in Threads |-> 0]
    /\ pidfile \in {<<>>, <<OldPid>>}
    /\ processes \in SUBSET {OldPid}
    /\ OldPid \in processes => pidfile = <<OldPid>>
    /\ starts = [c \in Callers |-> NotCalled]

NextStart ==
    \/ \E c \in Callers : StartExists(c)
    \/ \E c \in Callers : StartRead(c)
    \/ \E c \in Callers : StartKill(c)
    \/ \E c \in Callers : StartRemove(c)
    \/ \E c \in Callers : DaemonizeFork(c)
    \/ \E c \in Callers : DaemonizeWrite(c)
    \/ \E c \in Callers : run_daemon(c)
    \/ \E p \in processes : ProcessEnds(p)

SpecStart == InitStart /\ [][NextStart]_vars

\* ------------------------------------------------------------ properties
\* Row j of otp_log is consumed by the step
Consumed(j) == ~otp_log[j].used /\ otp_log'[j].used

\* No row of otp_log is deleted or rewritten, and no used flag is cleared
RecordsKept ==
    /\ Len(otp_log') >= Len(otp_log)
    /\ \A i \in 1..Len(otp_log) :
          /\ otp_log'[i].otp_code = otp_log[i].otp_code
          /\ otp_log'[i].purpose = otp_log[i].purpose
          /\ otp_log'[i].expires_at = otp_log[i].expires_at
          /\ otp_log[i].used => otp_log'[i].used

\* Neither a life-verification code nor the kill switch has been accepted
NoResponse ==
    /\ ~kill_accepted
    /\ \A i \in LifeRows(otp_log) : ~otp_log[i].used

\* C1: in one process, whatever the order of monitoring cycles, record_activity
\* calls and verify_life_response calls, execute_death_protocol is called at
\* most once.
C1_ReleaseAtMostOnce == releases <= 1

\* A release, then a later monitoring cycle and a later activity event
C1_Witness ==
    /\ releases = 1
    /\ nextTick > released_at + TickHours
    /\ \E i \in 1..Len(activity_log) : activity_log[i].timestamp > released_at

\* C2: execute_death_protocol is called only by a monitoring cycle that runs at
\* least verification_hours after the cycle that activated the trigger.
C2_ReleaseOnlyAfterDeadline ==
    releases > 0 => released_at >= activated_at + verification_hours

\* C3: once the kill-switch secret has been accepted (by verify_life_response or
\* by POST /kill-switch), no later step issues a life-verification challenge or
\* calls execute_death_protocol.
C3_KillSwitchDisarms ==
    [][kill_accepted =>
          /\ releases' = releases
          /\ LifeRows(otp_log') = LifeRows(otp_log)]_vars

\* C4: a life-verification code accepted while the trigger is activated puts the
\* trigger back to not activated and appends a 'life_verified' event, so that the
\* next inactivity period starts with a new challenge.
C4_VerifiedReturnsToIdle ==
    [][(is_running /\ trigger_activated /\ \E u \in Inputs : VerifyByOtp(u)) =>
          /\ is_running' /\ ~trigger_activated'
          /\ activity_log'[Len(activity_log')].activity_type = "life_verified"]_vars

\* C5: a monitoring cycle that runs at or after the deadline while the trigger is
\* activated and nothing was accepted calls execute_death_protocol, whether or
\* not activity was recorded since the challenge.
C5_ReleaseAtDeadline ==
    [][(/\ run_monitoring_cycle
        /\ is_running /\ trigger_activated /\ NoResponse
        /\ now >= activated_at + verification_hours) =>
          releases' = releases + 1]_vars

\* C6: from Idle with the last activity at least inactivity_days old a monitoring
\* cycle activates the trigger and issues exactly one challenge; a cycle that runs
\* before the deadline with the trigger activated issues none and leaves the
\* trigger activated and the system running.
C6_ActivatesOnceAndWaits ==
    [][run_monitoring_cycle =>
          /\ (/\ is_running /\ ~trigger_activated /\ ~kill_accepted
              /\ activity_log # <<>>
              /\ now - get_last_activity >= inactivity_days * HoursPerDay) =>
                 /\ is_running' /\ trigger_activated'
                 /\ Len(otp_log') = Len(otp_log) + 1
                 /\ otp_log'[Len(otp_log')].purpose = "life_verification"
          /\ (/\ is_running /\ trigger_activated /\ NoResponse
              /\ now < activated_at + verification_hours) =>
                 /\ is_running' /\ trigger_activated'
                 /\ otp_log' = otp_log]_vars

\* C7: after execute_death_protocol has run the system is never running again,
\* and every monitoring cycle leaves the ledger, the codes, the messages sent,
\* the trigger and the number of releases as they are.
C7_ReleasedIsTerminal ==
    [][releases > 0 =>
          /\ ~is_running /\ ~is_running'
          /\ run_monitoring_cycle =>
                UNCHANGED <<activity_log, otp_log, outbox, delivery_log, trigger_activated,
                            releases>>]_vars

\* A monitoring cycle has run after the release
C7_Witness ==
    /\ releases = 1
    /\ ~is_running
    /\ nextTick > released_at + TickHours

\* C8: monitoring cycles that run concurrently on one DeathSwitchAI call
\* execute_death_protocol at most once and issue at most one challenge for the
\* one activation of the run.
C8_SingleFlight ==
    /\ releases <= 1
    /\ Cardinality(LifeRows(otp_log)) <= 1

\* C9: a restart leaves the trigger state as it was: running or not, activated
\* or not.
C9_RestartKeepsState ==
    [][Restart =>
          /\ is_running' = is_running
          /\ trigger_activated' = trigger_activated]_vars

C11_VerifyIffUnexpired ==
    \A otp \in Codes :
       \A p \in {otp_log[i].purpose : i \in 1..Len(otp_log)} :
          verify_otp(otp_log, otp, p) <=>
             \E i \in 1..Len(otp_log) :
                /\ otp_log[i].otp_code = otp
                /\ otp_log[i].purpose = p
                /\ ~otp_log[i].used
                /\ otp_log[i].expires_at - tz > now

\* The 'life_verified' events of the ledger
LifeVerified == {i \in 1..Len(activity_log) : activity_log[i].activity_type = "life_verified"}

\* C12: of the verification responses that carry one valid code and are processed
\* concurrently, at most one is accepted for each challenge issued: there are
\* never more 'life_verified' events than challenges.
C12_OneAcceptancePerChallenge ==
    Cardinality(LifeVerified) <= Cardinality(LifeRows(otp_log))

\* C13: until the verification deadline (issue instant plus verification_hours)
\* the unused code of the pending challenge is accepted, and a release is never
\* preceded by an acceptance of its own challenge.
C13_AcceptedUntilDeadline ==
    /\ (is_running /\ trigger_activated /\ now <= activated_at + verification_hours) =>
          \A i \in LifeRows(otp_log) :
             (~otp_log[i].used /\ otp_log[i].expires_at = activated_at + tz + LifeOtpExpiryHours) =>
                verify_otp(otp_log, otp_log[i].otp_code, "life_verification")
    /\ releases > 0 =>
          \A i \in LifeVerified :
             \/ activity_log[i].timestamp < activated_at
             \/ activity_log[i].timestamp >= released_at

\* C14: a monitoring cycle that finds the ledger empty appends exactly one
\* 'first_run' event, issues no challenge, sends nothing, releases nothing and
\* leaves the system running with the trigger not activated.
C14_FirstRunOnlyRecords ==
    [][(run_monitoring_cycle /\ is_running /\ activity_log = <<>>) =>
          /\ Len(activity_log') = 1
          /\ activity_log'[1].activity_type = "first_run"
          /\ otp_log' = otp_log
          /\ outbox' = outbox
          /\ releases' = releases
          /\ is_running' /\ ~trigger_activated']_vars

\* The first cycle has run on an empty ledger
C14_Witness ==
    /\ activity_log # <<>>
    /\ activity_log[1].activity_type = "first_run"
    /\ nextTick > activity_log[1].timestamp

\* get_last_activity is none for an empty ledger and the greatest timestamp of
\* the ledger otherwise
LastActivityIsMax ==
    LET last_activity == get_last_activity
    IN  IF activity_log = <<>> THEN last_activity = NoTime
        ELSE /\ \A i \in 1..Len(activity_log) : activity_log[i].timestamp <= last_activity
             /\ \E i \in 1..Len(activity_log) : activity_log[i].timestamp = last_activity

\* C15: get_last_activity returns none when nothing was recorded and otherwise
\* the maximum timestamp of all events recorded; events are only appended, so the
\* value never decreases.
C15_LastActivityMonotone ==
    [][\/ activity_log' = activity_log /\ LastActivityIsMax   \* the ledger is left alone
       \/ /\ LastActivityIsMax
          /\ LastActivityIsMax'
          /\ Len(activity_log') >= Len(activity_log)
          /\ \A i \in 1..Len(activity_log) : activity_log'[i] = activity_log[i]
          /\ get_last_activity' >= get_last_activity]_vars

\* Two events recorded at different instants
C15_Witness ==
    /\ Len(activity_log) >= 2
    /\ activity_log[1].timestamp < activity_log[2].timestamp
    /\ get_last_activity = activity_log[2].timestamp

C17_KillSwitchRoundTrip ==
    \A stored_hash \in {kill_switch_hash, hash_file} :
       \A S \in KillInputs :
          stored_hash = hash_kill_switch(S) =>
             \A X \in KillInputs : verify_kill_switch(X, stored_hash) <=> X = S

\* The secret that was set has been accepted by verify_life_response
C17_Witness ==
    /\ ~is_running
    /\ kill_accepted
    /\ \E S \in KillInputs : kill_switch_hash = hash_kill_switch(S)

\* C18: verify_kill_switch is false for every malformed stored value, and the
\* verification entry points answer with a rejection, never with an exception,
\* when the stored hash is missing or corrupt.
C18_FailsClosed ==
    /\ \A stored_hash \in {kill_switch_hash, hash_file} :
          Len(stored_hash) # 2 =>
             \A X \in KillInputs : ~verify_kill_switch(X, stored_hash)
    /\ ~FileNotFound

\* The sends of the release made for one pair on one channel
Deliveries(recipient, document, channel) ==
    {i \in 1..Len(outbox) : /\ outbox[i].to = recipient
                            /\ outbox[i].document = document
                            /\ outbox[i].channel = channel}

\* The configured names
Names(list) == {list[i] : i \in 1..Len(list)}

C20_FailureDoesNotStopRelease ==
    \A i \in 1..Len(outbox) :
       (outbox[i].to # "owner" /\ ~outbox[i].ok) =>
          /\ \A r \in Names(recipients), d \in Names(documents) :
                \A channel \in {"email", "sms"} : Deliveries(r, d, channel) # {}
          /\ ~is_running

\* The mail of the first pair failed and the release went on to the second pair
C20_Witness ==
    /\ releases = 1
    /\ Len(recipients) * Len(documents) = 2
    /\ \E i \in 1..Len(outbox) :
          /\ outbox[i].to = recipients[1] /\ outbox[i].document = documents[1]
          /\ outbox[i].channel = "email" /\ ~outbox[i].ok
    /\ \E j \in 1..Len(outbox) :
          /\ outbox[j].to = recipients[Len(recipients)]
          /\ outbox[j].document = documents[Len(documents)]
          /\ outbox[j].channel = "sms" /\ outbox[j].ok

\* The sends of the release made to one recipient on one channel with one result
SendsWith(recipient, channel, ok) ==
    {i \in 1..Len(outbox) : /\ outbox[i].to = recipient
                            /\ outbox[i].channel = channel
                            /\ outbox[i].ok = ok}

\* The rows of delivery_log for one recipient, one channel and one status
Logged(recipient, channel, status) ==
    {j \in 1..Len(delivery_log) : /\ delivery_log[j].recipient_name = recipient
                                  /\ delivery_log[j].delivery_method = channel
                                  /\ delivery_log[j].status = status}

\* C21: once a release has run, delivery_log holds one row for each send of the
\* release, on each channel, whose status is "success" when the send succeeded
\* and "failed" when it failed.
C21_OutcomesLogged ==
    releases > 0 =>
       \A r \in Names(recipients), channel \in {"email", "sms"} :
          /\ Cardinality(Logged(r, channel, "success"))
                = Cardinality(SendsWith(r, channel, TRUE))
          /\ Cardinality(Logged(r, channel, "failed"))
                = Cardinality(SendsWith(r, channel, FALSE))

\* C22: for every pair released, the access code the SMS carries is the code
\* create_secure_document_viewer stored under document_access_<recipient> and
\* embedded in the viewer mailed for that pair.
C22_SmsCodeIsViewerCode ==
    \A i \in 1..Len(outbox) :
       outbox[i].channel = "sms" =>
          /\ \E j \in Deliveries(outbox[i].to, outbox[i].document, "email") :
                outbox[j].code = outbox[i].code
          /\ \E n \in 1..Len(otp_log) :
                /\ otp_log[n].purpose = DocPurpose(outbox[i].to)
                /\ otp_log[n].otp_code = outbox[i].code

\* C23: while config['recipients'] or config['documents'] is empty,
\* execute_death_protocol is never run and the system never reaches the state a
\* release leaves it in.
C23_NothingToRelease ==
    (recipients = <<>> \/ documents = <<>>) =>
       /\ releases = 0
       /\ released_at = NoTime
       /\ is_running

\* The process has run no cycle, issued no challenge and released nothing
NothingDone ==
    /\ nextTick = StartTime
    /\ otp_log = <<>>
    /\ outbox = <<>>
    /\ releases = 0
    /\ ~trigger_activated
    /\ \A i \in 1..Len(activity_log) : activity_log[i].activity_type # "first_run"

\* C24: when config.json is missing or lacks one of the keys email,
\* email_password, recipients, documents, the construction of DeathSwitchAI
\* fails, and the process whose construction failed runs no monitoring cycle,
\* issues no challenge and performs no release.
C24_BadConfigNeverStarts ==
    /\ [][(pc[1] = "start" /\ pc'[1] # "start") =>
            (pc'[1] = "idle" <=>
                (config_file.exists /\ config_file.keys = required_keys))]_vars
    /\ [](pc[1] \in {"start", "exited"} => NothingDone)

\* The construction failed and time went on to the end of the window
C24_Witness ==
    /\ pc[1] = "exited"
    /\ now = MaxTime

\* C25: a monitoring cycle that raises does not end the daemon loop: after the
\* n-th failed cycle, for every n, the loop makes another pass, which fails in
\* its turn or runs to its end and puts the loop to sleep for an hour.
C25_LoopSurvivesFailure ==
    \A n \in 1..MaxFailures :
       (failures = n /\ nextTick <= now) ~> (failures > n \/ nextTick > now)

\* Every cycle up to the bound has failed, one after the other, and the loop
\* has then run a cycle to its end
C25_Witness ==
    /\ failures = MaxFailures
    /\ nextTick > now
    /\ now = StartTime

\* C26: a monitoring cycle of a running system whose trigger is not activated
\* activates it exactly when the ledger is not empty and the whole days of real
\* time between the latest activity and the cycle are at least inactivity_days;
\* no trigger is activated before inactivity_days full days have elapsed.
C26_WholeDaysOfRealTime ==
    [][run_monitoring_cycle =>
          ((is_running /\ ~trigger_activated) =>
              (trigger_activated' <=>
                  /\ activity_log # <<>>
                  /\ (now - get_last_activity) \div HoursPerDay >= inactivity_days))]_vars

\* C27: every monitoring cycle terminates: a cycle that has entered a
\* notification call whose peer never answers leaves the call, with the send
\* counted as failed, and the loop is back at the point where later cycles run.
C27_EveryTickTerminates ==
    (pc[1] = "send_email") ~> (pc[1] = "idle")

\* C28: the stored kill-switch secret changes only by set_kill_switch, and
\* after set_kill_switch(S) both verify_life_response and the /kill-switch
\* handler accept S and reject every other secret, the one set before included.
C28_SetKillSwitchReplaces ==
    [][/\ (kill_switch_hash' # kill_switch_hash \/ hash_file' # hash_file) =>
             \E S \in Secrets : set_kill_switch(S)
       /\ \A S \in Secrets :
             set_kill_switch(S) =>
                \A X \in Secrets :
                   /\ (X = S) <=> verify_kill_switch(X, kill_switch_hash')
                   /\ (X = S) <=> (hash_file' # <<>> /\ verify_kill_switch(X, hash_file'))]_vars

\* C29: in every reachable state the status query reports the trigger state
\* (active only while the system runs with its trigger not activated), the
\* time of the last activity, and days_remaining = inactivity_days minus the
\* whole days elapsed since the last activity.
C29_StatusReportsState ==
    /\ (get_status.system = "active") <=> (is_running /\ ~trigger_activated)
    /\ get_status.last_activity = get_last_activity
    /\ activity_log # <<>> =>
          get_status.days_remaining =
             inactivity_days - ((now - get_last_activity) \div HoursPerDay)

\* The place of a provider in the order business_api, twilio, web_api, baileys
Rank(provider_name) ==
    CASE provider_name = "business_api" -> 1
      [] provider_name = "twilio" -> 2
      [] provider_name = "web_api" -> 3
      [] provider_name = "baileys" -> 4

\* The providers set up that answer a send with True
Succeeding == {name \in whatsapp.providers : whatsapp.outcome[name] = "true"}

\* C30: send_message tries the providers set up in the order business_api,
\* twilio, web_api, baileys, each at most once; it goes past a provider that
\* returns false or raises and stops at the first that succeeds, trying none
\* after it; it returns true exactly when a provider set up succeeds, and false
\* when none is set up.
C30_FirstSuccessInFixedOrder ==
    whatsapp.result # "none" =>
       LET tried == whatsapp.tried
       IN  /\ \A i \in 1..Len(tried) : tried[i] \in whatsapp.providers
           /\ \A i, j \in 1..Len(tried) : i < j => Rank(tried[i]) < Rank(tried[j])
           /\ \A i \in 1..Len(tried) :
                 whatsapp.outcome[tried[i]] = "true" => i = Len(tried)
           /\ \A name \in whatsapp.providers :
                 (\A s \in Succeeding : Rank(name) <= Rank(s)) =>
                    \E i \in 1..Len(tried) : tried[i] = name
           /\ (whatsapp.result = "true") <=> (Succeeding # {})
           /\ whatsapp.providers = {} => (whatsapp.result = "false" /\ tried = <<>>)

\* twilio is set up and would succeed, business_api raised before it, and the
\* providers after twilio were not tried
C30_Witness ==
    /\ whatsapp.providers = ProviderNames
    /\ whatsapp.outcome["business_api"] = "raises"
    /\ whatsapp.outcome["web_api"] = "true"
    /\ whatsapp.tried = <<"business_api", "twilio">>
    /\ whatsapp.result = "true"

\* C31: a cycle whose challenge could not be issued leaves the trigger not
\* activated: the trigger is activated only when a life-verification code has
\* been stored, and no release runs without one.
C31_NoActivationWithoutChallenge ==
    /\ trigger_activated => LifeRows(otp_log) # {}
    /\ releases > 0 => LifeRows(otp_log) # {}

\* C32: every release is preceded by a challenge, and between the issue of the
\* last challenge and the release no event is recorded in the ledger, neither
\* a check-in nor an accepted verification.
C32_ChallengeInSamePeriod ==
    releases > 0 =>
       /\ activated_at # NoTime
       /\ \A i \in 1..Len(activity_log) :
             \/ activity_log[i].timestamp < activated_at
             \/ activity_log[i].timestamp >= released_at

\* The purposes codes are stored under
Purposes == {"life_verification"} \cup {DocPurpose(r) : r \in {"alice", "bob"}}

\* The rows of otp_log that hold a given code for a given purpose
RowsFor(otp, purpose) ==
    {i \in 1..Len(otp_log) : otp_log[i].otp_code = otp /\ otp_log[i].purpose = purpose}

\* C33: a code passes verify_otp for a purpose only when it is stored under
\* that purpose: a document-access code does not pass life verification, a
\* life-verification code passes for no recipient's document access, and an
\* accepted verification response consumes a life-verification row and leaves
\* every other row as it was.
C33_PurposeSeparation ==
    /\ [](\A otp \in Codes, purpose \in Purposes :
             verify_otp(otp_log, otp, purpose) => RowsFor(otp, purpose) # {})
    /\ [][\A user_input \in Codes :
             VerifyByOtp(user_input) =>
                /\ \E i \in RowsFor(user_input, "life_verification") : Consumed(i)
                /\ \A j \in 1..Len(otp_log) :
                      j \notin LifeRows(otp_log) => otp_log'[j] = otp_log[j]]_vars

\* A document-access code that is unused and not expired, stored for alice
\* after the challenge carried the other code, is turned away by life
\* verification
C33_Witness ==
    \E i \in 1..Len(otp_log) :
       /\ otp_log[i].purpose = DocPurpose("alice")
       /\ ~otp_log[i].used
       /\ ExpiresAfterNow(otp_log[i].expires_at)
       /\ RowsFor(otp_log[i].otp_code, "life_verification") = {}
       /\ ~verify_otp(otp_log, otp_log[i].otp_code, "life_verification")
       /\ LifeRows(otp_log) # {}

\* C34: while config['kill_switch_hash'] is absent or empty no input, the empty
\* string included, is taken for the kill switch by verify_life_response, and
\* no verification response has stopped the system.
C34_NoKillSwitchNoDisable ==
    kill_switch_hash = <<"">> =>
       /\ is_running
       /\ \A X \in KillInputs :
             ~(kill_switch_hash # <<"">> /\ verify_kill_switch(X, kill_switch_hash))

\* No kill switch is set in config.json, the /kill-switch handler has accepted
\* the secret of kill_switch.hash, and verify_life_response turns every input
\* away
C34_Witness ==
    /\ kill_switch_hash = <<"">>
    /\ kill_accepted
    /\ is_running
    /\ \A X \in KillInputs : ~verify_otp(otp_log, X, "life_verification")

\* C35: the activating cycle sets the trigger and stores the challenge code
\* before the mail is attempted, and a mail that fails undoes neither: the code
\* of a failed mail is in otp_log, an activation is on record, and as long as
\* the code is unused and its expiry instant lies ahead it passes verify_otp.
C35_FailedMailKeepsChallenge ==
    \A m \in 1..Len(outbox) :
       (outbox[m].to = "owner" /\ ~outbox[m].ok) =>
          /\ activated_at # NoTime
          /\ RowsFor(outbox[m].code, "life_verification") # {}
          /\ \A i \in RowsFor(outbox[m].code, "life_verification") :
                (~otp_log[i].used /\ otp_log[i].expires_at - tz > now) =>
                   verify_otp(otp_log, outbox[m].code, "life_verification")

\* C36: a check-in (record_activity, POST /record-activity, the device
\* monitor's heartbeat) appends one event to the ledger and changes nothing
\* else: the events before it, trigger_activated, is_running and every row of
\* otp_log are as they were.
C36_CheckInOnlyAppends ==
    [][RecordActivity =>
          /\ Len(activity_log') = Len(activity_log) + 1
          /\ SubSeq(activity_log', 1, Len(activity_log)) = activity_log
          /\ UNCHANGED <<trigger_activated, is_running, otp_log>>]_vars

\* A check-in recorded while a challenge is pending
C36_Witness ==
    /\ trigger_activated
    /\ is_running
    /\ \E i \in LifeRows(otp_log) : ~otp_log[i].used
    /\ \E j \in 1..Len(activity_log) :
          /\ activity_log[j].activity_type = "manual_checkin"
          /\ activity_log[j].timestamp >= activated_at

\* The messages the release sent to one recipient for one document on one channel
PairMessages(recipient, document, channel) ==
    {i \in 1..Len(outbox) : /\ outbox[i].to = recipient
                            /\ outbox[i].document = document
                            /\ outbox[i].channel = channel}

\* C37: for every language tag of a recipient the e-mail and the SMS of a release
\* are written from a defined template, a tag that names no template gives the
\* english template in both, and the e-mail and the SMS one recipient receives
\* are in the same language whatever the letter case of the tag.
C37_SameLanguageOnBothChannels ==
    /\ \A i \in 1..Len(outbox) : outbox[i].language \in Templates
    /\ \A i \in 1..Len(outbox) :
          (outbox[i].to # "owner"
             /\ Lower(preferred_language[outbox[i].to]) \notin Templates) =>
                outbox[i].language = "english"
    /\ \A r \in Names(recipients), d \in Names(documents) :
          \A i \in PairMessages(r, d, "email"), j \in PairMessages(r, d, "sms") :
             outbox[i].language = outbox[j].language

\* A start whose os.kill found the process of the pidfile alive returns
LaunchesNothingWhenLive ==
    \A c \in Callers :
       (starts[c].at = "kill" /\ starts[c].pid \in processes
          /\ starts'[c] # starts[c]) => starts'[c].at = "returned"

\* A start that found the pidfile of a dead process forks only with the
\* pidfile removed
RemovesStalePidfile ==
    \A c \in Callers :
       (starts[c].at = "remove" /\ starts'[c].at = "fork") => pidfile' = <<>>

\* C38: at most one daemon monitoring loop runs at a time: start launches
\* nothing while the pidfile names a live process, removes a stale pidfile
\* before it starts, and however two concurrent starts interleave, one daemon
\* at most ends up in the loop.
C38_OneDaemonLoop ==
    /\ [](Cardinality(Looping) <= 1)
    /\ [][LaunchesNothingWhenLive]_vars
    /\ [][RemovesStalePidfile]_vars

====
